---- MODULE Spec2Model ----
(***************************************************************************)
(* A model of the ghacks user.js updater (src/src/main.rs): the header     *)
(* parser get_version_info, the preference merger minify/extract_pref and  *)
(* the update workflow run.  Texts are TLA+ strings, handled character by  *)
(* character with Len, SubSeq and \o, so that the string operations of the *)
(* source (split, trim, replace, lines, read_line) are modelled by what    *)
(* they do.                                                                *)
(***************************************************************************)
EXTENDS Integers, Sequences, FiniteSets, TLC

(***************************************************************************)
(* String operations of the Rust standard library, as the source uses them *)
(***************************************************************************)

\* The index of the first occurrence of pat in s at or after position i, 0
\* when there is none.
RECURSIVE FindFrom(_, _, _)
FindFrom(s, pat, i) ==
  IF i + Len(pat) - 1 > Len(s) THEN 0
  ELSE IF SubSeq(s, i, i + Len(pat) - 1) = pat THEN i
  ELSE FindFrom(s, pat, i + 1)

\* str::find, counted from 1, 0 for None.
Find(s, pat) == FindFrom(s, pat, 1)

\* str::contains
Contains(s, pat) == Find(s, pat) # 0

\* str::starts_with
StartsWith(s, pat) == Len(s) >= Len(pat) /\ SubSeq(s, 1, Len(pat)) = pat

\* str::split(pat): the pieces between the non-overlapping occurrences of pat,
\* left to right; a string without pat is its own single piece.
RECURSIVE Split(_, _)
Split(s, pat) ==
  LET i == Find(s, pat)
  IN  IF i = 0 THEN <<s>>
      ELSE <<SubSeq(s, 1, i - 1)>> \o Split(SubSeq(s, i + Len(pat), Len(s)), pat)

\* str::replace(pat, with)
RECURSIVE Replace(_, _, _)
Replace(s, pat, with) ==
  LET i == Find(s, pat)
  IN  IF i = 0 THEN s
      ELSE SubSeq(s, 1, i - 1) \o with \o Replace(SubSeq(s, i + Len(pat), Len(s)), pat, with)

\* The characters with the Unicode property White_Space, which str::trim
\* removes, as far as a string of the model can hold them: U+0009 to U+000D,
\* U+0020, U+0085, U+00A0 and U+1680.  The others (U+2000 to U+200A, U+2028,
\* U+2029, U+202F, U+205F, U+3000) cannot be written in a string here, so no
\* text of the model holds one.
Whitespace == {"\t", "\n", "", "\f", "\r", " ", "", " ", " "}

\* str::trim: leading and trailing whitespace removed.
Trim(s) ==
  LET keep == {i \in 1..Len(s) : SubSeq(s, i, i) \notin Whitespace}
  IN  IF keep = {} THEN ""
      ELSE LET lo == CHOOSE i \in keep : \A j \in keep : i <= j
               hi == CHOOSE i \in keep : \A j \in keep : j <= i
           IN  SubSeq(s, lo, hi)

\* BufRead::read_line: the text up to and including the first "\n", or all
\* of s when it holds none (the empty string at the end of the input).
ReadLine(s) ==
  LET i == Find(s, "\n")
  IN  IF i = 0 THEN s ELSE SubSeq(s, 1, i)

\* BufRead::lines: the lines of s without their terminator ("\n", or "\r\n").
RECURSIVE Lines(_)
Lines(s) ==
  IF s = "" THEN <<>>
  ELSE LET l    == ReadLine(s)
           n    == Len(l)
           body == IF n >= 1 /\ SubSeq(l, n, n) = "\n"
                   THEN IF n >= 2 /\ SubSeq(l, n - 1, n - 1) = "\r"
                        THEN SubSeq(l, 1, n - 2) ELSE SubSeq(l, 1, n - 1)
                   ELSE l
       IN  <<body>> \o Lines(SubSeq(s, n + 1, Len(s)))

\* [String]::join(sep)
RECURSIVE Join(_, _)
Join(ls, sep) ==
  IF Len(ls) = 0 THEN ""
  ELSE IF Len(ls) = 1 THEN ls[1]
  ELSE ls[1] \o sep \o Join(Tail(ls), sep)

\* A take that stops one element early.
Take_one_less(ls, n) == SubSeq(ls, 1, IF Len(ls) < n - 1 THEN Len(ls) ELSE n - 1)

\* Iterator::take(n)
Take(ls, n) == SubSeq(ls, 1, IF Len(ls) < n THEN Len(ls) ELSE n)

(***************************************************************************)
(* HeaderParser: get_version_info                                          *)
(***************************************************************************)

\* The outcome of split(marker).skip(1).next(): the second piece, or None.
SecondPiece(line, marker) ==
  LET ps == Split(line, marker)
  IN  IF Len(ps) >= 2 THEN <<ps[2]>> ELSE <<>>

\* get_version_info on a reader positioned at the start of text.  The result
\* is Ok(Version), Err(ParseError) or a panic (unwrap of None).
get_version_info(text) ==
  LET l1   == ReadLine(text)
      r1   == SubSeq(text, Len(l1) + 1, Len(text))
      l2   == ReadLine(r1)
      r2   == SubSeq(r1, Len(l2) + 1, Len(r1))
      l3   == ReadLine(r2)
      r3   == SubSeq(r2, Len(l3) + 1, Len(r2))
      l4   == ReadLine(r3)
      name == SecondPiece(l2, "name: ")
      date == SecondPiece(l3, "date: ")
      version == SecondPiece(l4, "version ")
  IN  IF name = <<>> \/ date = <<>> \/ version = <<>>
      THEN [kind |-> "Panic"]
      ELSE IF ~Contains(name[1], "ghacks")
      THEN [kind |-> "Err", error |-> "ParseError", context |-> "Version not recognized"]
      ELSE [kind |-> "Ok",
            name    |-> Replace(name[1], "\n", ""),
            version |-> Replace(version[1], "\n", ""),
            date    |-> Replace(date[1], "\n", "")]

(***************************************************************************)
(* PreferenceMerger: extract_pref and minify                               *)
(***************************************************************************)

\* The number of leading lines minify copies verbatim: take(76).
HeaderLines == 76

\* The declaration prefix, and its length in bytes: line[10..].
PrefPrefix == "user_pref("

\* extract_pref on a line that starts with user_pref(, the only lines minify
\* passes to it: the prefix is 10 one-byte characters, so the byte offset of
\* line[10..] is the character offset 10.  The result is the key and the value,
\* or a panic when the text before the first ")" holds no comma (the second
\* pref_iter.next().unwrap()).
extract_pref(line) ==
  LET pref  == Split(SubSeq(line, Len(PrefPrefix) + 1, Len(line)), ")")[1]
      parts == Split(pref, ",")
  IN  IF Len(parts) < 2 THEN [kind |-> "Panic"]
      ELSE [kind  |-> "Ok",
            key   |-> Trim(Replace(parts[1], "\"", "")),
            value |-> Trim(parts[2])]

\* lines.iter().filter(starts_with("user_pref(")).map(extract_pref)
PrefEntries(lines) ==
  LET sel == SelectSeq(lines, LAMBDA l : StartsWith(l, PrefPrefix))
  IN  [i \in 1..Len(sel) |-> extract_pref(sel[i])]

\* HashMap::insert of the entries of es, in order, into the map m.
RECURSIVE InsertAll(_, _)
InsertAll(m, es) ==
  IF Len(es) = 0 THEN m
  ELSE InsertAll([k \in DOMAIN m \cup {es[1].key} |->
                    IF k = es[1].key THEN es[1].value ELSE m[k]],
                 Tail(es))

EmptyMap == [k \in {} |-> ""]

\* The entries map of minify: the declarations of the lines of original, then
\* those of the lines of overrides inserted over them.
MergedEntries(original_lines, overrides_lines) ==
  InsertAll(InsertAll(EmptyMap, PrefEntries(original_lines)),
            PrefEntries(overrides_lines))

\* Whether one of the extract_pref calls of minify panics.
MinifyPanics(original_lines, overrides_lines) ==
  LET es == PrefEntries(original_lines) \o PrefEntries(overrides_lines)
  IN  \E i \in 1..Len(es) : es[i].kind = "Panic"

\* The orders in which HashMap::into_iter may yield the keys of m: the
\* iteration order of a std HashMap (RandomState) is unspecified.
IterOrders(m) ==
  LET n == Cardinality(DOMAIN m)
  IN  {o \in [1..n -> DOMAIN m] : \A i, j \in 1..n : o[i] = o[j] => i = j}

\* format!("user_pref(\"{}\", {});", key, value)
FormatPref(key, value) == "user_pref(\"" \o key \o "\", " \o value \o ");"

\* minify(original, overrides) when the map iterates in the given order.
minify(original, overrides, order) ==
  LET original_lines  == Lines(original)
      overrides_lines == Lines(overrides)
  IN  IF MinifyPanics(original_lines, overrides_lines) THEN [kind |-> "Panic"]
      ELSE LET header  == Join(Take(original_lines, HeaderLines), "\n")
               entries == MergedEntries(original_lines, overrides_lines)
               prefs   == Join([i \in 1..Len(order) |->
                                  FormatPref(order[i], entries[order[i]])], "\n")
           IN  [kind |-> "Ok", text |-> header \o "\n\n" \o prefs]

\* The orders minify may use on these inputs (none is needed when it panics).
MinifyOrders(original, overrides) ==
  LET original_lines  == Lines(original)
      overrides_lines == Lines(overrides)
  IN  IF MinifyPanics(original_lines, overrides_lines) THEN {<<>>}
      ELSE IterOrders(MergedEntries(original_lines, overrides_lines))

(***************************************************************************)
(* UpdateWorkflow: run                                                     *)
(***************************************************************************)

\* Bounds of the model.
MaxRuns      == 2  \* invocations of the program in one behaviour
MaxClock     == 1  \* the wall clock reads one of the seconds 0..MaxClock
MaxCutWrites == 1  \* writes of user.js.new in one behaviour that stop early

\* The paths run works on.
LivePath      == "user.js"
StagingPath   == "user.js.new"
OverridesPath == "user-overrides.js"

\* What Local::now() may return.
Times ==
  {[year |-> 2020, month |-> 2, day |-> 14, hour |-> 9, minute |-> 5, second |-> sec] :
     sec \in 0..MaxClock}

Digit(d) == SubSeq("0123456789", d + 1, d + 1)

\* A natural number in decimal.
RECURSIVE Decimal(_)
Decimal(n) == IF n < 10 THEN Digit(n) ELSE Decimal(n \div 10) \o Digit(n % 10)

\* Zeros put before s until it has w characters.
RECURSIVE ZeroFill(_, _)
ZeroFill(s, w) == IF Len(s) >= w THEN s ELSE ZeroFill("0" \o s, w)

\* A natural number zero-padded to at least w digits (%m, %d, %H, %M, %S).
Pad(n, w) == ZeroFill(Decimal(n), w)

\* %Y: the year zero-padded to 4 digits; a year before 0 or after 9999 is
\* written with its sign.
FormatYear(y) ==
  IF y < 0 THEN "-" \o Pad(0 - y, 4)
  ELSE IF y > 9999 THEN "+" \o Pad(y, 4)
  ELSE Pad(y, 4)

\* current_time.format("%Y-%m-%d_%H-%M-%S")
FormatTime(t) ==
  FormatYear(t.year) \o "-" \o Pad(t.month, 2) \o "-" \o Pad(t.day, 2) \o "_" \o
  Pad(t.hour, 2) \o "-" \o Pad(t.minute, 2) \o "-" \o Pad(t.second, 2)

\* format!("user-backup-{}.js", time)
BackupName(t) == "user-backup-" \o FormatTime(t) \o ".js"

Paths == {LivePath, StagingPath, OverridesPath} \cup {BackupName(t) : t \in Times}

\* A path holds no file (<<>>) or a file with a content (<<text>>).
Absent == <<>>
File(text) == <<text>>

\* Header blocks and documents the runs are exercised on.
Header(name, date, version) ==
  "/***\n* name: " \o name \o "\n* date: " \o date \o "\n* version " \o version \o "\n"

HeaderV1 == Header("ghacks user.js", "14 Feb", "73")
HeaderV2 == Header("ghacks user.js", "15 Mar", "74")

LiveTexts ==
  { HeaderV1 \o "user_pref(\"a\", 1);\n",
    HeaderV2 \o "user_pref(\"a\", 1);\n",
    Header("other user.js", "14 Feb", "73"),
    "/***\n* name: ghacks user.js\n" }

UpstreamTexts ==
  { HeaderV1 \o "***/\nuser_pref(\"a\", 3);\n",
    HeaderV2 \o "user_pref(\"b\", \"x\");",
    HeaderV1 \o "user_pref(\"a\" 3);\n",
    Header("other user.js", "14 Feb", "73"),
    "" }

OverrideTexts ==
  { "user_pref(\"a\", 2);\n",
    "// no overrides\n" }

VARIABLES
  fs,              \* the directory: path -> Absent or File(text)
  pc,              \* the step of run that was completed last, or its outcome
  args,            \* Arguments: the flags of this invocation
  version,         \* the Version parsed from user.js
  new_script,      \* the text fetch_script returned
  user_overrides,  \* the string the overrides are read into
  new_version,     \* the Version parsed from user.js.new
  backup_name,     \* the name the live file is backed up to
  error,           \* the UpdaterError run returned, "None" when none
  fs0,             \* history: the directory when this run started
  fetched,         \* history: fetch_script was called in this run
  candidate,       \* history: the text this run set out to write to user.js.new
  staged,          \* history: the content of user.js.new when the build step ended
  ops,             \* history: the file operations of this run that change the directory
  steps,           \* history: the steps this run executed, in order
  runs,            \* the number of this run
  cuts,            \* the number of writes of user.js.new that stopped early
  call,            \* a call of get_version_info or minify checked on its own
  result           \* what that call returned

vars == <<fs, pc, args, version, new_script, user_overrides, new_version,
          backup_name, error, fs0, fetched, candidate, staged, ops,
          steps, runs, cuts, call, result>>

locals == <<version, new_script, user_overrides, new_version, backup_name>>

\* The variables of the calls checked on their own, which run leaves alone.
frame == <<call, result>>

NoCall == [fn |-> "none"]

Terminal == {"Committed", "Discarded", "Failed", "Panicked", "Exited"}

NoVersion == [name |-> "", version |-> "", date |-> ""]

\* The Version of an Ok result of get_version_info.
VersionOf(r) == [name |-> r.name, version |-> r.version, date |-> r.date]

ArgumentsSet == [minify : BOOLEAN, unattended : BOOLEAN]

Init ==
  /\ \E live \in {Absent} \cup {File(t) : t \in LiveTexts},
        over \in {Absent} \cup {File(t) : t \in OverrideTexts} :
       fs = [p \in Paths |-> IF p = LivePath THEN live
                             ELSE IF p = OverridesPath THEN over ELSE Absent]
  /\ pc = "Start"
  /\ args \in ArgumentsSet
  /\ version = NoVersion /\ new_version = NoVersion
  /\ new_script = "" /\ user_overrides = "" /\ backup_name = ""
  /\ error = "None"
  /\ fs0 = fs
  /\ fetched = FALSE
  /\ candidate = "" /\ staged = ""
  /\ ops = <<>>
  /\ steps = <<>>
  /\ runs = 1
  /\ cuts = 0
  /\ call = NoCall /\ result = NoCall

\* run returns Err(e).
Fail(e) == pc' = "Failed" /\ error' = e

\* The program is started again after a run has ended.
Launch ==
  /\ pc \in Terminal
  /\ runs < MaxRuns
  /\ pc' = "Start"
  /\ args' \in ArgumentsSet
  /\ version' = NoVersion /\ new_version' = NoVersion
  /\ new_script' = "" /\ user_overrides' = "" /\ backup_name' = ""
  /\ error' = "None"
  /\ fs0' = fs
  /\ fetched' = FALSE
  /\ candidate' = "" /\ staged' = ""
  /\ ops' = <<>>
  /\ steps' = <<>>
  /\ runs' = runs + 1
  /\ UNCHANGED <<fs, cuts, frame>>

\* What the map_err closure of File::open("user.js") makes of the outcome of
\* the open.  The closure looks at the kind of the error, not at the file: an
\* error other than NotFound (~io_ok: no permission on the directory, too many
\* open files) panics whether or not the file is there; NotFound, the error
\* of an absent file, becomes MissingScript.
OpenLive(file, io_ok) ==
  IF ~io_ok THEN "Panic"
  ELSE IF file = Absent THEN "MissingScript"
  ELSE "Ok"

\* Lines 166-176: open user.js, parse its header and print the version found
\* (println! panics when standard output cannot be written: ~out_ok).
LocalVersionRead ==
  /\ pc = "Start"
  /\ steps' = Append(steps, "LocalVersionRead")
  /\ \E io_ok \in BOOLEAN, read_ok \in BOOLEAN, out_ok \in BOOLEAN :
       LET opened == OpenLive(fs[LivePath], io_ok) IN
       CASE opened = "MissingScript" ->
              /\ Fail("MissingScript") /\ UNCHANGED version
         [] opened = "Panic" ->
              /\ pc' = "Panicked" /\ UNCHANGED <<error, version>>
         [] OTHER ->
              LET r == get_version_info(fs[LivePath][1]) IN
              IF ~read_ok  \* a read_line(..)? returns the error
              THEN Fail("IoError") /\ UNCHANGED version
              ELSE CASE r.kind = "Ok" ->
                          /\ version' = VersionOf(r)
                          /\ pc' = (IF out_ok THEN "LocalVersionRead" ELSE "Panicked")
                          /\ UNCHANGED error
                     [] r.kind = "Err" -> Fail(r.error) /\ UNCHANGED version
                     [] OTHER -> pc' = "Panicked" /\ UNCHANGED <<error, version>>
  /\ UNCHANGED <<fs, args, new_script, user_overrides, new_version, backup_name,
                 fs0, fetched, candidate, staged, ops, runs, cuts, frame>>

\* What the menu returns: Some(0) Start, Some(1) Help, Some(2) Exit, None, or
\* an I/O error of the terminal.
MenuChoices == {"Start", "Help", "Exit", "None", "IoError"}

\* Lines 178-199 and show_help: the notice and the menu, skipped when
\* unattended.  The println! of the notice (lines 179-184) and the one of
\* show_help (line 256) panic when standard output cannot be written.
Menu ==
  /\ pc = "LocalVersionRead"
  /\ steps' = Append(steps, "Menu")
  /\ IF args.unattended
     THEN pc' = "Prompted" /\ UNCHANGED error
     ELSE \E select \in MenuChoices, out_ok \in BOOLEAN, help_ok \in BOOLEAN :
            IF ~out_ok THEN pc' = "Panicked" /\ UNCHANGED error
            ELSE CASE select = "Start"   -> pc' = "Prompted" /\ UNCHANGED error
                   [] select = "IoError" -> Fail("IoError")
                   [] select = "Help"    ->
                        /\ pc' = (IF help_ok THEN "Exited" ELSE "Panicked")
                        /\ UNCHANGED error
                   [] OTHER              -> pc' = "Exited" /\ UNCHANGED error
  /\ UNCHANGED <<fs, args, locals, fs0, fetched, candidate, staged, ops, runs, cuts, frame>>

\* Line 201 and fetch_script: the GET of the upstream text.
CandidateFetched ==
  /\ pc = "Prompted"
  /\ steps' = Append(steps, "CandidateFetched")
  /\ fetched' = TRUE
  /\ \/ \E text \in UpstreamTexts :
          /\ new_script' = text
          /\ pc' = "CandidateFetched"
          /\ UNCHANGED error
     \/ Fail("NetworkError") /\ UNCHANGED new_script
     \/ pc' = "Panicked" /\ UNCHANGED <<error, new_script>>  \* res.text().await.unwrap()
  /\ UNCHANGED <<fs, args, version, user_overrides, new_version, backup_name,
                 fs0, candidate, staged, ops, runs, cuts, frame>>

\* The step when missing overrides are skipped instead of being an error.
OverridesRead_skips ==
  /\ pc = "CandidateFetched"
  /\ steps' = Append(steps, "OverridesRead")
  /\ user_overrides' = "\n" \o (IF fs[OverridesPath] # Absent THEN fs[OverridesPath][1] ELSE "")
  /\ pc' = "OverridesRead"
  /\ UNCHANGED <<fs, args, version, new_script, new_version, backup_name, error,
                 fs0, fetched, candidate, staged, ops, runs, cuts, frame>>

\* Path::exists: true when the file is there and its metadata can be read;
\* false for an absent file and whenever the stat fails (~stat_ok).
Exists(file, stat_ok) == file # Absent /\ stat_ok

\* Lines 203-210: read user-overrides.js after the "\n" the string starts with.
OverridesRead ==
  /\ pc = "CandidateFetched"
  /\ steps' = Append(steps, "OverridesRead")
  /\ \E stat_ok \in BOOLEAN, io_ok \in BOOLEAN :
       IF Exists(fs[OverridesPath], stat_ok)
       THEN IF io_ok
            THEN /\ user_overrides' = "\n" \o fs[OverridesPath][1]
                 /\ pc' = "OverridesRead"
                 /\ UNCHANGED error
            ELSE Fail("IoError") /\ UNCHANGED user_overrides
       ELSE Fail("MissingOverrides") /\ UNCHANGED user_overrides
  /\ UNCHANGED <<fs, args, version, new_script, new_version, backup_name,
                 fs0, fetched, candidate, staged, ops, runs, cuts, frame>>

\* The text run sets out to write to user.js.new (lines 214-220), or a panic
\* of minify.
BuildText(min, script, overrides, order) ==
  IF min THEN minify(script, overrides, order)
  ELSE [kind |-> "Ok", text |-> script \o overrides]

\* What a write that fails may leave in the file: the write can stop after
\* any byte, so every proper prefix of text, the empty one included.
Prefixes(text) == {SubSeq(text, 1, k) : k \in 0..(Len(text) - 1)}

\* The outcomes of writing text through the BufWriter of lines 213-221: all
\* of it is written; or a write fails and write_all returns the error; or the
\* flush that happens when the BufWriter is dropped at the end of the block
\* fails, and that error is discarded (BufWriter's Drop ignores it).
WriteOutcomes(text) ==
  {[content |-> text, result |-> "Ok"]}
    \cup {[content |-> p, result |-> "IoError"] : p \in Prefixes(text)}
    \cup {[content |-> p, result |-> "Ok"] : p \in Prefixes(text)}

\* Lines 212-221: create user.js.new and write the candidate to it.
CandidateBuilt ==
  /\ pc = "OverridesRead"
  /\ steps' = Append(steps, "CandidateBuilt")
  /\ \/ \* File::create fails
        /\ Fail("IoError")
        /\ UNCHANGED <<fs, candidate, staged, ops, cuts>>
     \/ \E order \in (IF args.minify THEN MinifyOrders(new_script, user_overrides) ELSE {<<>>}) :
        \E built \in {BuildText(args.minify, new_script, user_overrides, order)} :
          IF built.kind = "Panic"
          THEN /\ fs' = [fs EXCEPT ![StagingPath] = File("")]
               /\ ops' = Append(ops, <<"create", StagingPath>>)
               /\ staged' = ""
               /\ pc' = "Panicked"
               /\ UNCHANGED <<error, candidate, cuts>>
          ELSE \E w \in WriteOutcomes(built.text) :
                 /\ w.content # built.text => cuts < MaxCutWrites
                 /\ cuts' = (IF w.content # built.text THEN cuts + 1 ELSE cuts)
                 /\ fs' = [fs EXCEPT ![StagingPath] = File(w.content)]
                 /\ ops' = ops \o <<(<<"create", StagingPath>>), (<<"write", StagingPath>>)>>
                 /\ candidate' = built.text
                 /\ staged' = w.content
                 /\ IF w.result = "Ok"
                    THEN pc' = "CandidateBuilt" /\ UNCHANGED error
                    ELSE Fail(w.result)
  /\ UNCHANGED <<args, locals, fs0, fetched, runs, frame>>

\* The step when a failure of the parse deletes user.js.new.
CandidateVersionRead_cleans ==
  /\ pc = "CandidateBuilt"
  /\ steps' = Append(steps, "CandidateVersionRead")
  /\ \E io_ok \in BOOLEAN :
       IF ~io_ok
       THEN Fail("IoError") /\ fs' = [fs EXCEPT ![StagingPath] = Absent] /\ UNCHANGED new_version
       ELSE LET r == get_version_info(fs[StagingPath][1]) IN
            CASE r.kind = "Ok" ->
                   /\ new_version' = VersionOf(r)
                   /\ pc' = "CandidateVersionRead"
                   /\ UNCHANGED <<error, fs>>
              [] r.kind = "Err" ->
                   Fail(r.error) /\ fs' = [fs EXCEPT ![StagingPath] = Absent] /\ UNCHANGED new_version
              [] OTHER -> pc' = "Panicked" /\ UNCHANGED <<error, new_version, fs>>
  /\ UNCHANGED <<args, version, new_script, user_overrides, backup_name,
                 fs0, fetched, candidate, staged, ops, runs, cuts, frame>>

\* Lines 223-228: open user.js.new and parse its header.
CandidateVersionRead ==
  /\ pc = "CandidateBuilt"
  /\ steps' = Append(steps, "CandidateVersionRead")
  /\ \E io_ok \in BOOLEAN :
       IF ~io_ok THEN Fail("IoError") /\ UNCHANGED new_version
       ELSE LET r == get_version_info(fs[StagingPath][1]) IN
            CASE r.kind = "Ok" ->
                   /\ new_version' = VersionOf(r)
                   /\ pc' = "CandidateVersionRead"
                   /\ UNCHANGED error
              [] r.kind = "Err" -> Fail(r.error) /\ UNCHANGED new_version
              [] OTHER -> pc' = "Panicked" /\ UNCHANGED <<error, new_version>>
  /\ UNCHANGED <<fs, args, version, new_script, user_overrides, backup_name,
                 fs0, fetched, candidate, staged, ops, runs, cuts, frame>>

\* The comparison with the opposite polarity.
changed_inverted == version # new_version

\* Line 229: let changed = version == new_version.
changed == version = new_version

\* fs::rename(from, to): the file moves, replacing what was at to.
Rename(dir, from, to) == [dir EXCEPT ![to] = dir[from], ![from] = Absent]

\* fs::remove_file(path)
RemoveFile(dir, path) == [dir EXCEPT ![path] = Absent]

\* Lines 230-243: the changed branch prints the two versions and the backup
\* name (println! panics when standard output cannot be written) and backs
\* user.js up under a timestamped name.
BackupRename ==
  /\ pc = "CandidateVersionRead"
  /\ changed
  /\ steps' = Append(steps, "BackupRename")
  /\ \E t \in Times, io_ok \in BOOLEAN, out_ok \in BOOLEAN :
       IF ~out_ok
       THEN pc' = "Panicked" /\ UNCHANGED <<error, fs, ops, backup_name>>
       ELSE /\ backup_name' = BackupName(t)
            /\ IF io_ok
               THEN /\ fs' = Rename(fs, LivePath, BackupName(t))
                    /\ ops' = Append(ops, <<"rename", LivePath, BackupName(t)>>)
                    /\ pc' = "BackedUp"
                    /\ UNCHANGED error
               ELSE Fail("IoError") /\ UNCHANGED <<fs, ops>>
  /\ UNCHANGED <<args, version, new_script, user_overrides, new_version,
                 fs0, fetched, candidate, staged, runs, cuts, frame>>

\* Lines 244-246: a line is printed, user.js.new is renamed to user.js and the
\* completion is printed; either println! panics when standard output cannot
\* be written, the first before the rename and the second after it.
PromoteRename ==
  /\ pc = "BackedUp"
  /\ steps' = Append(steps, "PromoteRename")
  /\ \E io_ok \in BOOLEAN, out_ok \in BOOLEAN, done_ok \in BOOLEAN :
       IF ~out_ok
       THEN pc' = "Panicked" /\ UNCHANGED <<error, fs, ops>>
       ELSE IF io_ok
       THEN /\ fs' = Rename(fs, StagingPath, LivePath)
            /\ ops' = Append(ops, <<"rename", StagingPath, LivePath>>)
            /\ pc' = (IF done_ok THEN "Committed" ELSE "Panicked")
            /\ UNCHANGED error
       ELSE Fail("IoError") /\ UNCHANGED <<fs, ops>>
  /\ UNCHANGED <<args, locals, fs0, fetched, candidate, staged, runs, cuts, frame>>

\* Lines 247-250: the other branch removes user.js.new and prints the
\* completion (println! panics when standard output cannot be written).
DiscardStaging ==
  /\ pc = "CandidateVersionRead"
  /\ ~changed
  /\ steps' = Append(steps, "DiscardStaging")
  /\ \E io_ok \in BOOLEAN, done_ok \in BOOLEAN :
       IF io_ok
       THEN /\ fs' = RemoveFile(fs, StagingPath)
            /\ ops' = Append(ops, <<"remove", StagingPath>>)
            /\ pc' = (IF done_ok THEN "Discarded" ELSE "Panicked")
            /\ UNCHANGED error
       ELSE Fail("IoError") /\ UNCHANGED <<fs, ops>>
  /\ UNCHANGED <<args, locals, fs0, fetched, candidate, staged, runs, cuts, frame>>

Next ==
  \/ Launch
  \/ LocalVersionRead
  \/ Menu
  \/ CandidateFetched
  \/ OverridesRead
  \/ CandidateBuilt
  \/ CandidateVersionRead
  \/ BackupRename
  \/ PromoteRename
  \/ DiscardStaging

Spec == Init /\ [][Next]_vars

(***************************************************************************)
(* Properties of the update workflow                                       *)
(***************************************************************************)

\* The step this run executed last.
LastStep == IF Len(steps) = 0 THEN "none" ELSE steps[Len(steps)]

Executed(step) == \E i \in 1..Len(steps) : steps[i] = step

\* The run compared the two records and took one of the two branches.
Decided == Executed("BackupRename") \/ Executed("DiscardStaging")

\* The two records are equal in their three fields.
RecordsEqual ==
  /\ version.name = new_version.name
  /\ version.version = new_version.version
  /\ version.date = new_version.date

IsDigit(c) == c \in {"0", "1", "2", "3", "4", "5", "6", "7", "8", "9"}

\* p is user-backup-<YYYY-MM-DD_HH-MM-SS>.js
IsBackupName(p) ==
  /\ Len(p) = 34
  /\ SubSeq(p, 1, 12) = "user-backup-"
  /\ SubSeq(p, 32, 34) = ".js"
  /\ \A i \in {13, 14, 15, 16, 18, 19, 21, 22, 24, 25, 27, 28, 30, 31} : IsDigit(SubSeq(p, i, i))
  /\ \A i \in {17, 20, 26, 29} : SubSeq(p, i, i) = "-"
  /\ SubSeq(p, 23, 23) = "_"

\* C1: a run that fails at a step after user.js.new was written (the staging
\* header parse, the backup rename, the promote rename or the staging delete)
\* ends with user.js at its path, with the content it had when the run began.
C1_LiveKeptOnLateFailure ==
  (pc = "Failed" /\ LastStep \in {"CandidateVersionRead", "BackupRename",
                                  "PromoteRename", "DiscardStaging"})
    => (fs[LivePath] # Absent /\ fs[LivePath] = fs0[LivePath])

\* C2: user.js changes only in the two renames of the commit; it leaves its
\* path only when user.js.new, a different path, holds the whole candidate
\* text, and it is filled again only by moving user.js.new onto it.
C2_LiveLeavesOnlyAfterStagingWritten ==
  [][ (fs'[LivePath] # fs[LivePath]) =>
        \/ /\ pc = "CandidateVersionRead"
           /\ fs'[LivePath] = Absent
           /\ StagingPath # LivePath
           /\ fs[StagingPath] = File(candidate)
        \/ /\ pc = "BackedUp"
           /\ fs[LivePath] = Absent
           /\ fs'[LivePath] = fs[StagingPath] ]_vars

\* Both renames of the commit branch have succeeded in this run.
BothRenamed ==
  /\ Len(ops) = 4
  /\ ops[3] = <<"rename", LivePath, backup_name>>
  /\ ops[4] = <<"rename", StagingPath, LivePath>>

\* The former live content is at a path named
\* user-backup-<YYYY-MM-DD_HH-MM-SS>.js, the former staging content is at
\* user.js and no file is at user.js.new.
CommittedLayout ==
  /\ IsBackupName(backup_name)
  /\ backup_name \in Paths \ {LivePath, StagingPath}
  /\ fs0[LivePath] # Absent
  /\ fs[backup_name] = fs0[LivePath]
  /\ fs[LivePath] = File(staged)
  /\ fs[StagingPath] = Absent

\* C3: when the two records are equal and both renames succeed, the run ends
\* Committed with the committed layout (the former live content at the backup
\* path, the former staging content at user.js, nothing at user.js.new), and a
\* run ends Committed only after both renames.
C3_CommitResult ==
  /\ BothRenamed => (pc = "Committed" /\ RecordsEqual /\ CommittedLayout)
  /\ pc = "Committed" => BothRenamed

\* The directory apart from user.js.new is as it was when the run began.
OnlyStagingTouched == \A p \in Paths \ {StagingPath} : fs[p] = fs0[p]

\* C4 as claimed: when the two records differ, the run ends Discarded with
\* user.js.new deleted, user.js unchanged and no backup created.
C4_DifferingRecordsDiscard ==
  (Decided /\ ~RecordsEqual /\ pc \in Terminal) =>
    (pc = "Discarded" /\ fs[StagingPath] = Absent /\ OnlyStagingTouched)

\* C4 as amended: when the two records differ, user.js keeps its content and
\* no backup is created; when the delete succeeds user.js.new is deleted and
\* the run ends Discarded, or the process aborts when the completion cannot be
\* printed; when the delete fails the run ends Failed(IoError) with
\* user.js.new left as it was built.
C4_DifferingRecordsDiscardOrFail ==
  /\ Executed("DiscardStaging") => ~RecordsEqual
  /\ (Decided /\ ~RecordsEqual /\ pc \in Terminal) =>
       /\ OnlyStagingTouched
       /\ ~Executed("BackupRename")
       /\ IF error = "None"
          THEN /\ pc \in {"Discarded", "Panicked"}
               /\ fs[StagingPath] = Absent
               /\ ops[Len(ops)] = <<"remove", StagingPath>>
          ELSE pc = "Failed" /\ error = "IoError" /\ fs[StagingPath] = File(staged)

C4_Witness ==
  /\ pc = "Discarded"
  /\ ~RecordsEqual
  /\ fs[LivePath] # Absent
  /\ ops[Len(ops)] = <<"remove", StagingPath>>

\* C5: a run that starts without user.js fails with MissingScript, and
\* fetches nothing and creates, renames or deletes no file.
C5_MissingScriptBeforeAnything ==
  (fs0[LivePath] = Absent /\ pc # "Start") =>
    (pc = "Failed" /\ error = "MissingScript" /\ ~fetched /\ fs = fs0 /\ ops = <<>>
       /\ steps = <<"LocalVersionRead">>)

\* C6: without user-overrides.js the run fails with MissingOverrides at the
\* step after the fetch, and no run without it changes the directory: the
\* staging file is not created and user.js is neither renamed nor modified.
C6_MissingOverridesAfterFetch ==
  /\ (fs0[OverridesPath] = Absent) => (fs = fs0 /\ ops = <<>>)
  /\ (fs0[OverridesPath] = Absent /\ Executed("OverridesRead")) =>
       (pc = "Failed" /\ error = "MissingOverrides")
  /\ (error = "MissingOverrides") =>
       /\ fetched
       /\ fs = fs0 /\ ops = <<>>
       /\ steps = <<"LocalVersionRead", "Menu", "CandidateFetched", "OverridesRead">>

C6_Witness ==
  /\ pc = "Failed" /\ error = "MissingOverrides"
  /\ fs0[OverridesPath] = Absent
  /\ new_script \in UpstreamTexts \ {""}

\* C7: when the header of user.js.new cannot be parsed, the run ends Failed
\* and neither rename of the commit is executed.
C7_UnreadableStagingFails ==
  (/\ pc \in Terminal
   /\ LastStep = "CandidateVersionRead"
   /\ fs[StagingPath] # Absent
   /\ get_version_info(fs[StagingPath][1]).kind # "Ok")
    => (pc = "Failed" /\ \A i \in 1..Len(ops) : ops[i][1] # "rename")

(***************************************************************************)
(* get_version_info and minify on their own: a call is drawn, then made    *)
(***************************************************************************)

\* No run is in progress.
NoRun ==
  /\ fs = [p \in Paths |-> Absent] /\ fs0 = fs
  /\ pc = "Exited"
  /\ args = [minify |-> FALSE, unattended |-> TRUE]
  /\ version = NoVersion /\ new_version = NoVersion
  /\ new_script = "" /\ user_overrides = "" /\ backup_name = ""
  /\ error = "None"
  /\ fetched = FALSE
  /\ candidate = "" /\ staged = ""
  /\ ops = <<>> /\ steps = <<>>
  /\ runs = 1
  /\ cuts = 0

run_vars == <<fs, pc, args, version, new_script, user_overrides, new_version,
              backup_name, error, fs0, fetched, candidate, staged, ops, steps, runs,
              cuts>>

\* The concatenation of the strings of a sequence.
RECURSIVE Concat(_)
Concat(ls) == IF Len(ls) = 0 THEN "" ELSE ls[1] \o Concat(Tail(ls))

\* The sequences of at most n elements of pool.
SeqsUpTo(pool, n) == UNION {[1..k -> pool] : k \in 0..n}

\* Second, third and fourth header lines the parser is exercised on: well
\* formed, with another terminator, without the marker, with the marker
\* twice, without the recognition token.
NameLines ==
  { "* name: ghacks user.js\n", "* name: ghacks user.js\r\n", "* name: other user.js\n",
    "* ghacks user.js\n", "* name: ghacks name: user.js\n", "name: my ghacks\n" }
DateLines ==
  { "* date: 14 February 2020\n", "* 14 February 2020\n", "* date: 14 date: 15\n" }
VersionLines ==
  { "* version 73\n", "* version 73", "* version 73: version notes\n",
    "* 73-beta\n", "* version \n" }

\* The header texts: the four lines and what follows, and texts that end
\* before the fourth line.
HeaderInputs ==
  { "/******\n" \o n \o d \o v \o rest :
      n \in NameLines, d \in DateLines, v \in VersionLines, rest \in {"", "***/\n"} }
    \cup { "/******\n" \o n \o d : n \in NameLines, d \in DateLines }
    \cup { "/******\n" \o n : n \in NameLines }
    \cup { "", "/******\n", "/******" }

HeaderInit ==
  /\ NoRun
  /\ call \in {[fn |-> "get_version_info", text |-> t] : t \in HeaderInputs}
  /\ result = NoCall

ParseHeader ==
  /\ call.fn = "get_version_info"
  /\ result = NoCall
  /\ result' = get_version_info(call.text)
  /\ UNCHANGED <<run_vars, call>>

SpecHeader == HeaderInit /\ [][ParseHeader]_vars

\* Bounds of the documents minify is exercised on.
MaxBaseDecls == 2   \* lines of a short base document
MaxLongDecls == 2   \* lines after the padding of a long base document
MaxOverDecls == 2   \* lines of an overrides document

\* Lines of base documents: declarations, one with a comma in its value, one
\* without a comma, one without a closing parenthesis, and a comment that
\* ends in "\r\n".
BaseLinePool ==
  { "user_pref(\"a.b\", true);\n",
    "user_pref(\"c.d\", 1);\n",
    "user_pref(\"e.f\", \"x,y\");\n",
    "user_pref(\"c.d\" 1);\n",
    "user_pref(\"a.b\", 0\n",
    "/* note */\r\n" }

OverLinePool ==
  { "user_pref(\"c.d\", 2);\n",
    "user_pref(\"e.f\", \"x\");\n",
    "user_pref(\"a.b\", \"u,v\"); // mine\n" }

\* n comment lines.
RECURSIVE Padding(_)
Padding(n) == IF n = 0 THEN "" ELSE "*\n" \o Padding(n - 1)

\* Lines that follow the padding of the long base documents.
LongLinePool ==
  { "user_pref(\"a.b\", true);\n",
    "user_pref(\"c.d\", 1);\n" }

\* The base documents: short ones, which the header block holds whole, and
\* long ones, where the first line after the padding is the last line of the
\* header block and the lines after it are outside the block.
BaseDocs ==
  {Concat(ls) : ls \in SeqsUpTo(BaseLinePool, MaxBaseDecls)}
    \cup {Padding(HeaderLines - 1) \o Concat(ls) : ls \in SeqsUpTo(LongLinePool, MaxLongDecls)}

OverDocs == {Concat(ls) : ls \in SeqsUpTo(OverLinePool, MaxOverDecls)}

MergeInit ==
  /\ NoRun
  /\ call \in {[fn |-> "minify", original |-> b, overrides |-> o] :
                 b \in BaseDocs, o \in OverDocs}
  /\ result = NoCall

Merge ==
  /\ call.fn = "minify"
  /\ result = NoCall
  /\ \E order \in MinifyOrders(call.original, call.overrides) :
       result' = minify(call.original, call.overrides, order)
  /\ UNCHANGED <<run_vars, call>>

SpecMerge == MergeInit /\ [][Merge]_vars

(***************************************************************************)
(* Properties of minify                                                    *)
(***************************************************************************)

Merged == call.fn = "minify" /\ result # NoCall

\* The text of a declaration line between user_pref( and the first ")".
DeclInner(line) ==
  LET rest == SubSeq(line, Len(PrefPrefix) + 1, Len(line))
      close == Find(rest, ")")
  IN  IF close = 0 THEN rest ELSE SubSeq(rest, 1, close - 1)

\* A declaration line is well formed when it has its comma and its closing
\* parenthesis.
WellFormedDecl(line) ==
  /\ StartsWith(line, PrefPrefix)
  /\ Contains(line, ")")
  /\ Contains(DeclInner(line), ",")

\* The declaration lines of a document.
DeclLines(text) == SelectSeq(Lines(text), LAMBDA l : StartsWith(l, PrefPrefix))

AllDeclsWellFormed(text) ==
  \A i \in 1..Len(DeclLines(text)) : WellFormedDecl(DeclLines(text)[i])

\* The key and the value text of a well-formed declaration line: the text
\* before the first comma without quotes and surrounding whitespace, and the
\* whole text after the first comma without surrounding whitespace.
DeclKey(line) ==
  LET inner == DeclInner(line)
  IN  Trim(Replace(SubSeq(inner, 1, Find(inner, ",") - 1), "\"", ""))

DeclValue(line) ==
  LET inner == DeclInner(line)
  IN  Trim(SubSeq(inner, Find(inner, ",") + 1, Len(inner)))

\* The key-to-value map of a sequence of declaration lines, the last
\* declaration of a key deciding its value.
DeclMap(ds) ==
  [k \in {DeclKey(ds[i]) : i \in 1..Len(ds)} |->
     DeclValue(ds[CHOOSE i \in 1..Len(ds) :
                    /\ DeclKey(ds[i]) = k
                    /\ \A j \in 1..Len(ds) : DeclKey(ds[j]) = k => j <= i])]

\* The map of base overlaid with the map of overrides.
Overlay(base, overrides) == DeclMap(DeclLines(base) \o DeclLines(overrides))

\* The number of lines of the header block of the output.
HeaderCount(base) ==
  IF Len(Lines(base)) < HeaderLines THEN Len(Lines(base)) ELSE HeaderLines

\* The serialized declarations of an output: its declaration lines after the
\* header block and the blank line.
SerializedDecls(out, base) ==
  LET ls == Lines(out)
  IN  SelectSeq(SubSeq(ls, HeaderCount(base) + 2, Len(ls)),
                LAMBDA l : StartsWith(l, PrefPrefix))

Range(f) == {f[i] : i \in DOMAIN f}

\* C8: for documents whose declaration lines are well formed, the
\* declarations merge serializes are the map of base overlaid with the map of
\* overrides, each key once with its value text unchanged.
C8_MergeIsOverlay ==
  (Merged /\ AllDeclsWellFormed(call.original) /\ AllDeclsWellFormed(call.overrides)) =>
    /\ result.kind = "Ok"
    /\ LET expected == Overlay(call.original, call.overrides)
           decls    == SerializedDecls(result.text, call.original)
       IN  /\ Range(decls) = {FormatPref(k, expected[k]) : k \in DOMAIN expected}
           /\ Len(decls) = Cardinality(DOMAIN expected)

\* The header block of the output: each of the first 76 lines of base, ended
\* by a line feed.
HeaderBlock(base) ==
  LET ls == Lines(base)
  IN  Concat([i \in 1..HeaderCount(base) |-> ls[i] \o "\n"])

\* The output is the header block, one blank line and the entries serialized
\* in one of their orders.
LaidOut(out, base, overrides) ==
  LET entries == MergedEntries(Lines(base), Lines(overrides))
  IN  \E order \in IterOrders(entries) :
        out = HeaderBlock(base) \o "\n"
                \o Join([i \in 1..Len(order) |-> FormatPref(order[i], entries[order[i]])], "\n")

\* C9 as claimed: for all documents, the output of merge is the first 76
\* lines of base (all of them when there are fewer), one blank line, and the
\* serialized declarations.
C9_HeaderThenBlankThenDecls ==
  (Merged /\ result.kind = "Ok") => LaidOut(result.text, call.original, call.overrides)

\* C9 as amended: that holds for every base that has at least one line; for
\* the empty base the output begins with two line feeds, an empty first line
\* before the blank line.
C9_HeaderThenBlankThenDecls_NonEmptyBase ==
  (Merged /\ result.kind = "Ok") =>
    IF call.original # ""
    THEN LaidOut(result.text, call.original, call.overrides)
    ELSE LaidOut(SubSeq(result.text, 2, Len(result.text)), call.original, call.overrides)
           /\ SubSeq(result.text, 1, 1) = "\n"

C9_Witness ==
  /\ Merged /\ result.kind = "Ok"
  /\ Len(Lines(call.original)) > HeaderLines
  /\ Len(SerializedDecls(result.text, call.original)) >= 2

(***************************************************************************)
(* Properties of get_version_info                                          *)
(***************************************************************************)

Parsed == call.fn = "get_version_info" /\ result # NoCall

\* The i-th line of text with its terminator, "" when text ends before it.
RECURSIVE LineAt(_, _)
LineAt(text, i) ==
  IF i = 1 THEN ReadLine(text)
  ELSE LineAt(SubSeq(text, Len(ReadLine(text)) + 1, Len(text)), i - 1)

\* The whole text after the first occurrence of marker on the line, without
\* the line feed that ends the line.
AfterMarker(line, marker) ==
  LET t == SubSeq(line, Find(line, marker) + Len(marker), Len(line))
  IN  IF Len(t) > 0 /\ SubSeq(t, Len(t), Len(t)) = "\n" THEN SubSeq(t, 1, Len(t) - 1) ELSE t

\* Lines 2, 3 and 4 hold their markers and the name holds the token.
WellFormedHeader(text) ==
  /\ Contains(LineAt(text, 2), "name: ")
  /\ Contains(LineAt(text, 3), "date: ")
  /\ Contains(LineAt(text, 4), "version ")
  /\ Contains(AfterMarker(LineAt(text, 2), "name: "), "ghacks")

\* C10: on a well-formed header with the recognition token the parser
\* returns the record whose name, date and version are the whole text after
\* the marker of their line, without the trailing line feed.
C10_FieldsAreMarkerSuffixes ==
  (Parsed /\ WellFormedHeader(call.text)) =>
    result = [kind    |-> "Ok",
              name    |-> AfterMarker(LineAt(call.text, 2), "name: "),
              version |-> AfterMarker(LineAt(call.text, 4), "version "),
              date    |-> AfterMarker(LineAt(call.text, 3), "date: ")]

\* Lines 2, 3 and 4 hold their markers.
MarkersPresent(text) ==
  /\ Contains(LineAt(text, 2), "name: ")
  /\ Contains(LineAt(text, 3), "date: ")
  /\ Contains(LineAt(text, 4), "version ")

\* The error value of an unrecognized header.
NotRecognized ==
  [kind |-> "Err", error |-> "ParseError", context |-> "Version not recognized"]

\* C11: for every header whose name, the text after the marker of line 2,
\* does not contain "ghacks", the parser returns
\* ParseError("Version not recognized") and no record, whatever lines 3 and 4
\* hold.
C11_UnrecognizedNameIsParseError ==
  (/\ Parsed
   /\ Contains(LineAt(call.text, 2), "name: ")
   /\ ~Contains(AfterMarker(LineAt(call.text, 2), "name: "), "ghacks"))
    => result = NotRecognized

\* C12: when one of the lines 2, 3 and 4 is absent or lacks its marker, the
\* parser returns an error value: it returns no record and does not abort.
C12_MissingMarkerIsError ==
  (Parsed /\ ~MarkersPresent(call.text)) => result.kind = "Err"

(***************************************************************************)
(* Further properties of the update workflow                               *)
(***************************************************************************)

\* The place of a step in the order of run; the decision is the backup rename
\* followed by the promote rename, or the delete of the staging file.
StepRank(step) ==
  CASE step = "LocalVersionRead"     -> 1
    [] step = "Menu"                 -> 2
    [] step = "CandidateFetched"     -> 3
    [] step = "OverridesRead"        -> 4
    [] step = "CandidateBuilt"       -> 5
    [] step = "CandidateVersionRead" -> 6
    [] step = "BackupRename"         -> 7
    [] step = "DiscardStaging"       -> 7
    [] step = "PromoteRename"        -> 8

\* The steps of this run were executed in the order of run, none skipped and
\* none twice.
StepsInOrder ==
  /\ \A i \in 1..Len(steps) : StepRank(steps[i]) = i
  /\ Executed("PromoteRename") => Executed("BackupRename")

\* C13: the steps of a run are executed in the order LocalVersionRead,
\* CandidateFetched, OverridesRead, CandidateBuilt, CandidateVersionRead,
\* Decision, each at most once, and a run that has ended has ended Committed,
\* Discarded or Failed.
C13_LinearRunEndsInOutcome ==
  /\ StepsInOrder
  /\ pc \in Terminal => pc \in {"Committed", "Discarded", "Failed"}

(***************************************************************************)
(* Further properties of minify and extract_pref                           *)
(***************************************************************************)

\* The declaration lines of the call: those of base, then those of overrides.
AllDecls == DeclLines(call.original) \o DeclLines(call.overrides)

\* C14: for every declaration line with its comma and closing parenthesis,
\* the extracted value is the whole text between the first comma and the
\* first ")" with surrounding whitespace stripped, further commas kept; and
\* the last declaration of the call is re-serialized with that value.
C14_ValueKeepsFurtherCommas ==
  Merged =>
    /\ \A i \in 1..Len(AllDecls) :
         WellFormedDecl(AllDecls[i]) =>
           extract_pref(AllDecls[i]) = [kind  |-> "Ok",
                                        key   |-> DeclKey(AllDecls[i]),
                                        value |-> DeclValue(AllDecls[i])]
    /\ (result.kind = "Ok" /\ Len(AllDecls) > 0 /\ WellFormedDecl(AllDecls[Len(AllDecls)])) =>
         FormatPref(DeclKey(AllDecls[Len(AllDecls)]), DeclValue(AllDecls[Len(AllDecls)]))
           \in Range(SerializedDecls(result.text, call.original))

\* The keys of a sequence of entries in the order of their first appearance.
RECURSIVE FirstAppearance(_, _)
FirstAppearance(es, seen) ==
  IF Len(es) = 0 THEN <<>>
  ELSE IF es[1].key \in seen THEN FirstAppearance(Tail(es), seen)
  ELSE <<es[1].key>> \o FirstAppearance(Tail(es), seen \cup {es[1].key})

\* C15: the output of merge is the one whose declarations are serialized in
\* the order of first appearance of their keys across base, then overrides;
\* so two executions on the same documents give the same output.
C15_OrderOfFirstAppearance ==
  (Merged /\ result.kind = "Ok") =>
    result = minify(call.original, call.overrides,
                    FirstAppearance(PrefEntries(Lines(call.original))
                                      \o PrefEntries(Lines(call.overrides)), {}))

\* C17: merge does not complete with an output that holds a declaration
\* derived from a declaration line that lacks its comma or its closing
\* parenthesis.
C17_MalformedDeclIsFatal ==
  (Merged /\ result.kind = "Ok") =>
    ~ \E i \in 1..Len(AllDecls) :
        /\ ~WellFormedDecl(AllDecls[i])
        /\ \A j \in (i + 1)..Len(AllDecls) :
             extract_pref(AllDecls[j]).key # extract_pref(AllDecls[i]).key
        /\ FormatPref(extract_pref(AllDecls[i]).key, extract_pref(AllDecls[i]).value)
             \in Range(SerializedDecls(result.text, call.original))

\* The lines of base after the header block.
BodyLines(base) == SubSeq(Lines(base), HeaderCount(base) + 1, Len(Lines(base)))

\* C18: every declaration merge serializes after the blank line has the key
\* of a declaration line of base after the header block or of a declaration
\* line of overrides; the lines of the header block contribute no key.
C18_NoDeclFromHeader ==
  (Merged /\ result.kind = "Ok") =>
    LET allowed == PrefEntries(BodyLines(call.original)) \o PrefEntries(Lines(call.overrides))
        keys    == {allowed[i].key : i \in 1..Len(allowed)}
    IN  \A d \in Range(SerializedDecls(result.text, call.original)) :
          \E k \in keys : StartsWith(d, "user_pref(\"" \o k \o "\", ")

(***************************************************************************)
(* Properties of the staging file                                          *)
(***************************************************************************)

\* The text is empty or ends with a line feed: its last line is terminated.
EndsLine(text) == text = "" \/ SubSeq(text, Len(text), Len(text)) = "\n"

\* The first text, one blank line, then the second text.
WithBlankLine(first, second) ==
  first \o (IF EndsLine(first) THEN "\n" ELSE "\n\n") \o second

\* C16: in append mode, when the build step has completed, user.js.new holds
\* the fetched text, a blank line and the text of user-overrides.js, both
\* verbatim.
C16_AppendIsVerbatimWithBlankLine ==
  (pc = "CandidateBuilt" /\ ~args.minify) =>
    fs[StagingPath] = File(WithBlankLine(new_script, fs[OverridesPath][1]))

\* What the header parser makes of the file at a path.
RecordAt(dir, path) == get_version_info(dir[path][1])

\* C19: the record parsed from user.js never changes.  Whenever user.js is at
\* its path it was there when the run began and parses to the same result as
\* then; and a run that has ended Committed or Discarded leaves user.js at its
\* path with the name, version and date it had before the run.
C19_LiveRecordNeverChanges ==
  /\ fs[LivePath] # Absent =>
       /\ fs0[LivePath] # Absent
       /\ (fs[LivePath] = fs0[LivePath] \/ RecordAt(fs, LivePath) = RecordAt(fs0, LivePath))
  /\ pc \in {"Committed", "Discarded"} =>
       /\ fs[LivePath] # Absent
       /\ RecordAt(fs, LivePath).kind = "Ok"
       /\ VersionOf(RecordAt(fs, LivePath)) = VersionOf(RecordAt(fs0, LivePath))

\* A second run has committed a file that differs from the one it found.
C19_Witness ==
  /\ pc = "Committed"
  /\ runs = 2
  /\ fs[LivePath] # fs0[LivePath]
  /\ VersionOf(RecordAt(fs, LivePath)) = version

\* The first text is the second or a prefix of it.
IsPrefix(p, text) == Len(p) <= Len(text) /\ SubSeq(text, 1, Len(p)) = p

\* C20: user.js.new leaves its path only in the delete that ends the run
\* Discarded and in the promote rename that ends it Committed; a run that
\* fails at the parse of user.js.new or at the backup rename ends with
\* user.js.new on disk as it was built; and when a run has built its
\* candidate, user.js.new holds what that run wrote, whatever an earlier run
\* left there.
C20_StagingLeavesOnlyAtDecision ==
  /\ [][ (fs[StagingPath] # Absent /\ fs'[StagingPath] = Absent) =>
           \/ /\ pc = "CandidateVersionRead" /\ ~RecordsEqual
              /\ ops' = Append(ops, <<"remove", StagingPath>>)
           \/ /\ pc = "BackedUp" /\ RecordsEqual
              /\ ops' = Append(ops, <<"rename", StagingPath, LivePath>>) ]_vars
  /\ [] ( (pc \in {"Failed", "Panicked"}
             /\ LastStep \in {"CandidateVersionRead", "BackupRename"})
            => fs[StagingPath] = File(staged) )
  /\ [] ( pc = "CandidateBuilt"
            => (fs[StagingPath] = File(staged) /\ IsPrefix(staged, candidate)) )

\* A run has built its candidate over the file an earlier run left.
C20_Witness ==
  /\ runs = 2
  /\ fs0[StagingPath] # Absent
  /\ pc = "CandidateBuilt"
  /\ fs[StagingPath] # fs0[StagingPath]
  /\ fs[StagingPath] = File(candidate)

====
